---- MODULE Spec2Model ----
(***************************************************************************)
(* A model of the Databricks MCP gateway (src/server.py): the lexical      *)
(* read-only classifier, the statement client (submit, poll, follow chunk  *)
(* links), the metadata cache and the public tool operations.              *)
(*                                                                         *)
(* SQL text is a sequence of lexical elements: every punctuation or white- *)
(* space character is one element, and a maximal run of letters (a word)   *)
(* is one element.  The regular expressions of the classifier are modelled *)
(* element by element with Python's leftmost, backtracking semantics.      *)
(***************************************************************************)
EXTENDS Integers, Sequences, FiniteSets, TLC

\* ------------------------------------------------------------------------
\* Bounds of the model
\* ------------------------------------------------------------------------
MaxLen == 6            \* longest SQL text handed to the classifier
MaxTime == 7           \* the clock stops advancing here; a call starts only while
                       \* CallSpan ticks remain, so its polling never meets the stop
MaxPageRows == 2       \* most rows in one page (first page or chunk)

\* ------------------------------------------------------------------------
\* Configuration (src/server.py 50-56), each read from the environment; the
\* model runs the server under small configured values, one clock tick being
\* one second.
\* ------------------------------------------------------------------------
HTTP_TIMEOUT_SECONDS == 2
POLL_TIMEOUT_SECONDS == 3
POLL_INTERVAL_SECONDS == 1
MAX_ROWS_DEFAULT == 1
MAX_ROWS_HARD_LIMIT == 2
METADATA_CACHE_TTL_SECONDS == 2

\* ------------------------------------------------------------------------
\* Query Classifier (src/server.py 23-90)
\* ------------------------------------------------------------------------
READ_ONLY_START_KEYWORDS == {"SELECT", "WITH", "SHOW", "DESCRIBE", "DESC", "EXPLAIN"}

DISALLOWED_OPERATIONS ==
    {"UPDATE", "DELETE", "DROP", "ALTER", "TRUNCATE", "MERGE", "GRANT", "REVOKE",
     "REPLACE", "SET", "UNSET", "OPTIMIZE", "VACUUM", "COPY", "CLONE", "EXECUTE",
     "CALL", "PUT", "REMOVE", "UNDROP", "RESTORE", "INSERT", "CREATE"}

\* The backtick character (the parser accepts no backtick inside a string).
BACKTICK == "<backtick>"

\* The punctuation and whitespace characters of the model's SQL texts.
Punctuation == {"'", "\"", BACKTICK, "/", "*", "-", ";", "\\"}
Whitespace == {" ", "\n"}

\* An element that is a run of letters: \b falls between it and any character.
IsWord(e) == e \notin Punctuation /\ e \notin Whitespace

\* str.upper() on one element: the lower-case words of the model's texts.
UpperElem(e) ==
    CASE e = "select" -> "SELECT"
      [] e = "drop" -> "DROP"
      [] e = "t" -> "T"
      [] OTHER -> e

Upper(q) == [i \in 1..Len(q) |-> UpperElem(q[i])]

\* The index of the first "*/" at or after j, 0 when there is none.
RECURSIVE BlockClose(_, _)
BlockClose(q, j) ==
    IF j + 1 > Len(q) THEN 0
    ELSE IF q[j] = "*" /\ q[j + 1] = "/" THEN j
    ELSE BlockClose(q, j + 1)

\* re.sub(r"/\*.*?\*/", " ", query, flags=re.DOTALL), from index i on.
RECURSIVE SubBlockComments(_, _)
SubBlockComments(q, i) ==
    IF i > Len(q) THEN << >>
    ELSE IF /\ i + 1 <= Len(q)
            /\ q[i] = "/"
            /\ q[i + 1] = "*"
            /\ BlockClose(q, i + 2) # 0
         THEN <<" ">> \o SubBlockComments(q, BlockClose(q, i + 2) + 2)
         ELSE <<q[i]>> \o SubBlockComments(q, i + 1)

\* The index of the first newline at or after j, Len(q) + 1 when there is none.
RECURSIVE LineEnd(_, _)
LineEnd(q, j) ==
    IF j > Len(q) THEN j
    ELSE IF q[j] = "\n" THEN j
    ELSE LineEnd(q, j + 1)

\* re.sub(r"--[^\n]*", " ", query), from index i on.
RECURSIVE SubLineComments(_, _)
SubLineComments(q, i) ==
    IF i > Len(q) THEN << >>
    ELSE IF i + 1 <= Len(q) /\ q[i] = "-" /\ q[i + 1] = "-"
         THEN <<" ">> \o SubLineComments(q, LineEnd(q, i + 2))
         ELSE <<q[i]>> \o SubLineComments(q, i + 1)

\* The closing quote of quote(?:esc quote|[^quote])*quote for a literal whose
\* body starts at p: the first quote that is not taken as part of an escape
\* pair; when the text ends first, the regex backtracks into the most recent
\* escape pair (back), 0 when there is none and the match fails.
RECURSIVE LiteralClose(_, _, _, _, _)
LiteralClose(q, p, quote, esc, back) ==
    IF p > Len(q) THEN back
    ELSE IF q[p] = esc /\ p + 1 <= Len(q) /\ q[p + 1] = quote
         THEN LiteralClose(q, p + 2, quote, esc, IF esc = quote THEN p ELSE p + 1)
    ELSE IF q[p] = quote THEN p
    ELSE LiteralClose(q, p + 1, quote, esc, back)

\* re.sub of one quoting style by the empty literal of that style, from i on.
RECURSIVE SubLiterals(_, _, _, _)
SubLiterals(q, i, quote, esc) ==
    IF i > Len(q) THEN << >>
    ELSE IF q[i] = quote /\ LiteralClose(q, i + 1, quote, esc, 0) # 0
         THEN <<quote, quote>>
                  \o SubLiterals(q, LiteralClose(q, i + 1, quote, esc, 0) + 1, quote, esc)
         ELSE <<q[i]>> \o SubLiterals(q, i + 1, quote, esc)

\* re.sub(r"\s+", " ", query), from index i on.
RECURSIVE CollapseWhitespace(_, _)
CollapseWhitespace(q, i) ==
    IF i > Len(q) THEN << >>
    ELSE IF q[i] \in Whitespace
         THEN IF i > 1 /\ q[i - 1] \in Whitespace
              THEN CollapseWhitespace(q, i + 1)
              ELSE <<" ">> \o CollapseWhitespace(q, i + 1)
         ELSE <<q[i]>> \o CollapseWhitespace(q, i + 1)

\* str.strip() of a text whose whitespace runs are already single spaces.
Strip(q) ==
    LET a == IF Len(q) > 0 /\ q[1] = " " THEN Tail(q) ELSE q
    IN  IF Len(a) > 0 /\ a[Len(a)] = " " THEN SubSeq(a, 1, Len(a) - 1) ELSE a

_strip_sql_comments_and_literals(query) ==
    LET q1 == SubBlockComments(query, 1)
        q2 == SubLineComments(q1, 1)
        q3 == SubLiterals(q2, 1, "'", "'")
        q4 == SubLiterals(q3, 1, "\"", "\\")
        q5 == SubLiterals(q4, 1, BACKTICK, BACKTICK)
    IN  Strip(CollapseWhitespace(q5, 1))

\* re.match(r"^([A-Z]+)", normalized_query): the leading run of letters.  Two
\* adjacent words read as one longer word, which is no keyword of either set.
FirstToken(n) ==
    IF Len(n) = 0 \/ ~IsWord(n[1]) THEN "<none>"
    ELSE IF Len(n) >= 2 /\ IsWord(n[2]) THEN "<joined>"
    ELSE n[1]

\* re.search(rf"\b{operation}\b", normalized_query)
SearchWord(n, operation) ==
    \E k \in 1..Len(n) :
        /\ n[k] = operation
        /\ (k = 1 \/ ~IsWord(n[k - 1]))
        /\ (k = Len(n) \/ ~IsWord(n[k + 1]))

is_read_only_query(query) ==
    LET normalized_query == Upper(_strip_sql_comments_and_literals(query))
    IN  IF Len(normalized_query) = 0 THEN FALSE
        ELSE IF FirstToken(normalized_query) = "<none>" THEN FALSE
        ELSE IF FirstToken(normalized_query) \notin READ_ONLY_START_KEYWORDS THEN FALSE
        ELSE IF \E operation \in DISALLOWED_OPERATIONS :
                    SearchWord(normalized_query, operation)
             THEN FALSE
        ELSE TRUE

\* ------------------------------------------------------------------------
\* State
\* ------------------------------------------------------------------------
VARIABLES
    sql_text,       \* the SQL text handed to is_read_only_query
    verdict,        \* its verdict: "none" before the call, "allowed", "blocked"
    now,            \* time.time()
    env_ok,         \* the three required environment settings are present
    _client,        \* the module's client singleton: "None" or "client"
    _metadata_cache,\* key -> <<expires_at, payload>>, a dict
    tool,           \* the public operation called last
    query,          \* the statement of that call
    max_rows_arg,   \* the row cap the caller asked for
    cache_key,      \* its cache key (metadata operations)
    refresh,        \* its refresh flag (metadata operations)
    pc,             \* where the call stands: "idle", "submit", "poll", "chunks"
    max_rows,       \* execute_read_query's locals, lines 181-218
    statement_id,
    state,
    response_data,
    deadline,
    columns,
    all_rows,
    next_chunk,
    wire,           \* the HTTP exchange made last in this call
    client_result,  \* what DatabricksSQLClient.execute_read_query returned
    raised,         \* the exception that ended the call inside the client
    result,         \* the outcome of the operation at the tool boundary
    threads,        \* concurrent callers of the metadata tools: each one's locals
    _cache_lock,    \* the thread holding _cache_lock, 0 when it is free
    _client_lock,   \* the thread holding _client_lock, 0 when it is free
    plans,          \* metadata tool calls and the <<sql, key>> each one generates
    conversation_history,   \* src/client.py: the kept messages
    MAX_HISTORY_MESSAGES,   \* src/client.py: the configured cap
    appended                \* every message handed to append_history, in order

classifier_vars == <<sql_text, verdict>>

thread_vars == <<threads, _cache_lock, _client_lock>>

plan_vars == <<plans>>

history_vars == <<conversation_history, MAX_HISTORY_MESSAGES, appended>>

\* What the gateway's sequential operations never touch.
other_vars == <<classifier_vars, thread_vars, plan_vars, history_vars>>

process_vars == <<now, env_ok, _client, _metadata_cache>>

call_vars == <<tool, query, max_rows_arg, cache_key, refresh, pc, result>>

client_vars ==
    <<max_rows, statement_id, state, response_data, deadline, columns, all_rows,
      next_chunk, wire, client_result, raised>>

gateway_vars == <<process_vars, call_vars, client_vars>>

vars == <<gateway_vars, other_vars>>

\* ------------------------------------------------------------------------
\* Values
\* ------------------------------------------------------------------------
\* Python's None, and a JSON member that is absent.
Null == "<null>"

\* A response body whose "result" member is absent (not a dict).
NoDict == [absent |-> TRUE]

Min(a, b) == IF a <= b THEN a ELSE b

Max(a, b) == IF a >= b THEN a ELSE b

NoException == [type |-> "none", message |-> ""]

NoResult == [ok |-> FALSE]

NoResponse ==
    [statement_id |-> Null, state |-> Null, message |-> Null, columns |-> << >>,
     result |-> NoDict, data_array |-> << >>, next_chunk_internal_link |-> Null]

NoExchange ==
    [seq |-> 0, kind |-> "none", url |-> Null, response |-> NoResponse, rows_sent |-> 0,
     row_limit |-> 0]

\* The outcome of a public operation: nothing yet, a returned envelope, or an
\* exception that left the operation.
NoOutcome == [status |-> "none"]

Returned(envelope) == [status |-> "returned", envelope |-> envelope]

Propagated(exc) == [status |-> "raised", exception |-> exc]

\* ------------------------------------------------------------------------
\* The warehouse: what it may answer
\* ------------------------------------------------------------------------
\* Rows are positional arrays of one cell, which holds the row's number in the
\* result set.  A page holds the next rows after those already sent, up to
\* MaxPageRows of them.
Pages(sent) ==
    {[i \in 1..n |-> <<sent + i>>] : n \in 0..MaxPageRows}

\* manifest.schema.columns: the name of each column, Null where it has none.
ColumnLists == {<<"a">>, <<Null>>}

Links == {"/chunks/1", "/chunks/2"}

STATEMENTS_PATH == "/api/2.0/sql/statements"

\* A status body (the answer to the submission or to a status poll): a state,
\* an optional error message and, once SUCCEEDED, a manifest and a first page.
StatusResponses(ids) ==
    {[statement_id |-> id, state |-> st, message |-> msg, columns |-> << >>,
      result |-> NoDict, data_array |-> << >>, next_chunk_internal_link |-> Null] :
        id \in ids, st \in {Null, "PENDING", "RUNNING", "FAILED"},
        msg \in {Null, "server error"}}
    \cup
    {[statement_id |-> id, state |-> "SUCCEEDED", message |-> Null, columns |-> cols,
      result |-> res, data_array |-> << >>, next_chunk_internal_link |-> Null] :
        id \in ids, cols \in ColumnLists,
        res \in {NoDict} \cup
                [data_array : Pages(0), next_chunk_internal_link : Links \cup {Null}]}

\* A chunk body: the rows and the next link at the top level.
ChunkResponses(sent) ==
    {[statement_id |-> Null, state |-> Null, message |-> Null, columns |-> << >>,
      result |-> NoDict, data_array |-> rows, next_chunk_internal_link |-> link] :
        rows \in Pages(sent), link \in Links \cup {Null}}

\* How long an HTTP call may take, in whole ticks: at most the per-call timeout.
Latencies == 1..HTTP_TIMEOUT_SECONDS

\* The clock after d more ticks; it stops at MaxTime.
After(t, d) == Min(t + d, MaxTime)

\* The longest the submission and the poll loop of one call can take.
CallSpan == 2 * HTTP_TIMEOUT_SECONDS + POLL_TIMEOUT_SECONDS + POLL_INTERVAL_SECONDS - 1

\* ------------------------------------------------------------------------
\* Statement Client (src/server.py 153-228)
\* ------------------------------------------------------------------------
_extract_columns(response_payload) ==
    [idx \in 1..Len(response_payload.columns) |->
        IF response_payload.columns[idx] = Null
        THEN "column_" \o ToString(idx - 1)
        ELSE response_payload.columns[idx]]

\* <<rows, next_chunk>> of a body.
_extract_rows(response_payload) ==
    IF response_payload.result # NoDict
    THEN <<response_payload.result.data_array,
           response_payload.result.next_chunk_internal_link>>
    ELSE <<response_payload.data_array, response_payload.next_chunk_internal_link>>

GENERIC_ERROR == "Databricks statement failed without an error message."

\* Variant: no fallback to the state name.
_error_message_no_state(payload) ==
    IF payload.message # Null THEN payload.message ELSE GENERIC_ERROR

_error_message(payload) ==
    IF payload.message # Null THEN payload.message
    ELSE IF payload.state # Null THEN payload.state
    ELSE GENERIC_ERROR

\* response_data.get("status", {}).get("state", "UNKNOWN")
StateOf(payload) == IF payload.state = Null THEN "UNKNOWN" ELSE payload.state

\* Variant: a poll loop that only watches the clock.
KeepPollingAnyState(st, t, dl) == st # "FAILED" /\ t < dl

\* Variant: a poll loop that only watches the state.
KeepPollingNoDeadline(st, t, dl) == st \in {"PENDING", "RUNNING"}

\* The condition of the poll loop, line 199.
KeepPolling(st, t, dl) == st \in {"PENDING", "RUNNING"} /\ t < dl

\* Variant: a chunk loop that follows links whatever it has accumulated.
MoreChunksUncapped(link, rows, cap) == link # Null

\* The condition of the chunk loop, line 212.
MoreChunks(link, rows, cap) == link # Null /\ Len(rows) < cap

\* Variant: a flag that only looks at the outstanding link.
TruncatedByLink(link, rows, cap) == link # Null

\* bool(next_chunk) or len(all_rows) > max_rows, line 217.
Truncated(link, rows, cap) == link # Null \/ Len(rows) > cap

\* Variant: no trimming.
Untrimmed(rows, cap) == rows

\* all_rows[:max_rows], line 218.
Trimmed(rows, cap) ==
    IF cap >= 0 THEN SubSeq(rows, 1, Min(Len(rows), cap))
    ELSE SubSeq(rows, 1, Max(0, Len(rows) + cap))

\* dict(zip(columns, row)): a later column of the same name wins.
ZipRow(cols, row) ==
    LET n == Min(Len(cols), Len(row))
    IN  [name \in {cols[i] : i \in 1..n} |->
            row[CHOOSE i \in 1..n : cols[i] = name /\ \A j \in (i + 1)..n : cols[j] # name]]

MappedRows(cols, rows) == [i \in 1..Len(rows) |-> ZipRow(cols, rows[i])]

\* The dict execute_read_query returns, lines 217-228.
ClientReturn(id, cols, rows, link, cap) ==
    [ok |-> TRUE,
     statement_id |-> id,
     row_count |-> Len(MappedRows(cols, Trimmed(rows, cap))),
     columns |-> cols,
     rows |-> MappedRows(cols, Trimmed(rows, cap)),
     truncated |-> Truncated(link, rows, cap)]

TransportError == [type |-> "RequestException", message |-> "transport error"]

MissingStatementId ==
    [type |-> "RuntimeError", message |-> "Databricks did not return a statement_id."]

MissingEnvironment ==
    [type |-> "ValueError", message |-> "Missing required environment variable"]

\* ------------------------------------------------------------------------
\* Metadata cache (src/server.py 104-119)
\* ------------------------------------------------------------------------
\* Variant: a stored payload counts only when it is truthy.
CacheHitNonEmpty(cache, key, t) ==
    key \in DOMAIN cache /\ ~(cache[key][1] < t) /\ cache[key][2] # << >>

\* What _cache_get returns at time t: the payload of a live entry, or a miss.
CacheHit(cache, key, t) == key \in DOMAIN cache /\ ~(cache[key][1] < t)

\* The cache after _cache_get: an expired entry is popped.
CacheAfterGet(cache, key, t) ==
    IF key \in DOMAIN cache /\ cache[key][1] < t
    THEN [k \in (DOMAIN cache) \ {key} |-> cache[k]]
    ELSE cache

\* Variant: a stored entry gets the new payload and keeps its old expiry.
CacheAfterSetKeepExpiry(cache, key, payload, t) ==
    [k \in (DOMAIN cache) \cup {key} |->
        IF k # key THEN cache[k]
        ELSE IF key \in DOMAIN cache THEN <<cache[key][1], payload>>
        ELSE <<t + METADATA_CACHE_TTL_SECONDS, payload>>]

\* Variant: an entry already stored is kept.
CacheAfterSetIfAbsent(cache, key, payload, t) ==
    IF key \in DOMAIN cache THEN cache
    ELSE [k \in (DOMAIN cache) \cup {key} |->
            IF k = key THEN <<t + METADATA_CACHE_TTL_SECONDS, payload>> ELSE cache[k]]

\* The cache after _cache_set at time t.
CacheAfterSet(cache, key, payload, t) ==
    [k \in (DOMAIN cache) \cup {key} |->
        IF k = key THEN <<t + METADATA_CACHE_TTL_SECONDS, payload>> ELSE cache[k]]

\* ------------------------------------------------------------------------
\* Public operations (src/server.py 246-337)
\* ------------------------------------------------------------------------
QueryTools == {"execute_read_query", "get_databricks_data"}

MetadataTools ==
    {"list_catalogs", "list_schemas", "list_databases", "list_tables", "describe_table"}

\* _quote_ident: wrap in backticks, doubling every embedded backtick.
RECURSIVE DoubleBackticks(_)
DoubleBackticks(identifier) ==
    IF identifier = << >> THEN << >>
    ELSE (IF Head(identifier) = BACKTICK THEN <<BACKTICK, BACKTICK>>
          ELSE <<Head(identifier)>>) \o DoubleBackticks(Tail(identifier))

_quote_ident(identifier) == <<BACKTICK>> \o DoubleBackticks(identifier) \o <<BACKTICK>>

\* Variant: validation that only looks at max_rows.
ValidationErrorRowsOnly(q, m) ==
    IF m <= 0 THEN "max_rows must be greater than 0." ELSE Null

\* The rejection of execute_read_query's validation, Null when it passes.
ValidationError(q, m) ==
    IF m <= 0 THEN "max_rows must be greater than 0."
    ELSE IF ~is_read_only_query(q)
         THEN "Only read-only SQL is allowed. Use SELECT, WITH, SHOW, DESCRIBE, DESC, or EXPLAIN."
    ELSE Null

\* What leaves the operation when the client call raises: the query tools catch
\* every exception (lines 326-331); _run_metadata_query catches nothing.
Boundary(t, exc) ==
    IF t \in QueryTools
    THEN Returned([ok |-> FALSE,
                   error |-> IF exc.type = "RequestException"
                             THEN "Databricks request failed: " \o exc.message
                             ELSE exc.message])
    ELSE Propagated(exc)

\* The arguments the model's callers pass.
Queries == {<<"select", " ", "'", "DROP", "'">>, <<"DROP">>, << >>}

RowCaps == {0, 1, MAX_ROWS_HARD_LIMIT + 1}

Catalogs == {<< >>, <<"main">>}

Schemas == {<< >>, <<"sales">>}

Tables == {<<"orders">>}

\* The locals of execute_read_query(query, max_rows=cap) as it starts.
FreshLocals(cap) ==
    /\ max_rows' = cap
    /\ UNCHANGED <<statement_id, state, response_data, deadline, columns, all_rows,
                   next_chunk>>

\* The locals of execute_read_query, gone when it returns or raises.
ClearLocals ==
    /\ max_rows' = 0
    /\ statement_id' = Null
    /\ state' = Null
    /\ response_data' = NoResponse
    /\ deadline' = 0
    /\ columns' = << >>
    /\ all_rows' = << >>
    /\ next_chunk' = Null

\* The arguments of the tool call, gone when the tool returns or raises.
ClearArguments ==
    /\ tool' = "none"
    /\ query' = << >>
    /\ max_rows_arg' = 0
    /\ cache_key' = << >>
    /\ refresh' = FALSE

\* The call ends inside the client with exception exc.
Raise(exc) ==
    /\ raised' = exc
    /\ pc' = "idle"
    /\ result' = Boundary(tool, exc)
    /\ client_result' = NoResult
    /\ ClearLocals
    /\ ClearArguments
    /\ wire' = NoExchange

\* _get_client().execute_read_query(...), up to the submission: _get_client
\* builds the singleton on first use and raises when a setting is missing.
Dispatch(t, q, m, key, rf, cap) ==
    /\ wire' = NoExchange
    /\ client_result' = NoResult
    /\ IF _client = "None" /\ ~env_ok
       THEN /\ raised' = MissingEnvironment
            /\ pc' = "idle"
            /\ result' = Boundary(t, MissingEnvironment)
            /\ UNCHANGED <<_client, tool, query, max_rows_arg, cache_key, refresh,
                           max_rows, statement_id, state, response_data, deadline,
                           columns, all_rows, next_chunk>>
       ELSE /\ _client' = "client"
            /\ raised' = NoException
            /\ pc' = "submit"
            /\ result' = NoOutcome
            /\ tool' = t
            /\ query' = q
            /\ max_rows_arg' = m
            /\ cache_key' = key
            /\ refresh' = rf
            /\ FreshLocals(cap)

\* Variant: the caller's cap handed on as it is.
UnclampedRows(m) == m

\* min(max_rows, MAX_ROWS_HARD_LIMIT), line 325.
ClampedRows(m) == Min(m, MAX_ROWS_HARD_LIMIT)

\* A call may start while the clock leaves room for its polling.
CanCall == pc = "idle" /\ now + CallSpan <= MaxTime

\* execute_read_query(query, max_rows), lines 310-331, as tool t.
ExecuteCall(t, q, m) ==
    /\ CanCall
    /\ IF ValidationError(q, m) # Null
       THEN /\ result' = Returned([ok |-> FALSE, error |-> ValidationError(q, m)])
            /\ pc' = "idle"
            /\ raised' = NoException
            /\ wire' = NoExchange
            /\ client_result' = NoResult
            /\ UNCHANGED <<_client, tool, query, max_rows_arg, cache_key, refresh,
                           max_rows, statement_id, state, response_data, deadline,
                           columns, all_rows, next_chunk>>
       ELSE Dispatch(t, q, m, << >>, FALSE, ClampedRows(m))
    /\ UNCHANGED <<now, env_ok, _metadata_cache, other_vars>>

ExecuteReadQuery ==
    \E q \in Queries, m \in RowCaps : ExecuteCall("execute_read_query", q, m)

\* get_databricks_data, lines 334-337: an alias.
GetDatabricksData ==
    \E q \in Queries, m \in RowCaps : ExecuteCall("get_databricks_data", q, m)

\* _run_metadata_query(sql, cache_key, refresh), lines 246-252, as tool t.
MetadataCall(t, sql, key, rf) ==
    /\ CanCall
    /\ IF ~rf /\ CacheHit(_metadata_cache, key, now)
       THEN /\ result' = Returned([ok |-> TRUE, cached |-> TRUE,
                                   data |-> _metadata_cache[key][2]])
            /\ pc' = "idle"
            /\ raised' = NoException
            /\ wire' = NoExchange
            /\ client_result' = NoResult
            /\ UNCHANGED <<_client, _metadata_cache, tool, query, max_rows_arg,
                           cache_key, refresh, max_rows, statement_id, state,
                           response_data, deadline, columns, all_rows, next_chunk>>
       ELSE /\ _metadata_cache' =
                  IF rf THEN _metadata_cache
                  ELSE CacheAfterGet(_metadata_cache, key, now)
            /\ Dispatch(t, sql, MAX_ROWS_DEFAULT, key, rf, MAX_ROWS_DEFAULT)
    /\ UNCHANGED <<now, env_ok, other_vars>>

\* The <<sql, cache key>> each metadata tool hands to _run_metadata_query.  An
\* argument that is None or empty is << >>.
list_catalogs_plan == << <<"SHOW", " ", "CATALOGS">>, <<"catalogs">> >>

list_schemas_plan(catalog) ==
    IF catalog # << >>
    THEN << <<"SHOW", " ", "SCHEMAS", " ", "IN", " ">> \o _quote_ident(catalog),
            <<"schemas", ":">> \o catalog >>
    ELSE << <<"SHOW", " ", "SCHEMAS">>, <<"schemas", ":", "default">> >>

list_tables_plan(catalog, schema) ==
    IF catalog # << >> /\ schema # << >>
    THEN << <<"SHOW", " ", "TABLES", " ", "IN", " ">>
                \o _quote_ident(catalog) \o <<".">> \o _quote_ident(schema),
            <<"tables", ":">> \o catalog \o <<".">> \o schema >>
    ELSE IF schema # << >>
    THEN << <<"SHOW", " ", "TABLES", " ", "IN", " ">> \o _quote_ident(schema),
            <<"tables", ":", "schema", ":">> \o schema >>
    ELSE << <<"SHOW", " ", "TABLES">>, <<"tables", ":", "default">> >>

describe_table_plan(catalog, schema, table) ==
    << <<"DESCRIBE", " ", "TABLE", " ">>
           \o _quote_ident(catalog) \o <<".">> \o _quote_ident(schema)
           \o <<".">> \o _quote_ident(table),
       <<"describe", ":">> \o catalog \o <<".">> \o schema \o <<".">> \o table >>

ListCatalogs ==
    \E rf \in BOOLEAN :
        MetadataCall("list_catalogs", list_catalogs_plan[1], list_catalogs_plan[2], rf)

\* list_schemas(catalog, refresh), lines 266-275, as tool t.
ListSchemasCall(t, catalog, rf) ==
    MetadataCall(t, list_schemas_plan(catalog)[1], list_schemas_plan(catalog)[2], rf)

ListSchemas ==
    \E catalog \in Catalogs, rf \in BOOLEAN : ListSchemasCall("list_schemas", catalog, rf)

\* list_databases, lines 278-281: an alias.
ListDatabases ==
    \E catalog \in Catalogs, rf \in BOOLEAN : ListSchemasCall("list_databases", catalog, rf)

ListTables ==
    \E catalog \in Catalogs, schema \in Schemas, rf \in BOOLEAN :
        MetadataCall("list_tables", list_tables_plan(catalog, schema)[1],
                     list_tables_plan(catalog, schema)[2], rf)

DescribeTable ==
    \E catalog \in Catalogs \ {<< >>}, schema \in Schemas \ {<< >>}, table \in Tables,
       rf \in BOOLEAN :
        MetadataCall("describe_table", describe_table_plan(catalog, schema, table)[1],
                     describe_table_plan(catalog, schema, table)[2], rf)

\* One answered HTTP exchange of the call: the request made, the body that came
\* back, and the rows the warehouse has sent for the statement so far.  seq
\* alternates, so that two equal exchanges in a row are still two.  row_limit
\* is the "row_limit" of the statement's submission payload (line 187).
Exchange(kind, url, response, sent) ==
    [seq |-> 1 - wire.seq, kind |-> kind, url |-> url, response |-> response,
     rows_sent |-> sent,
     row_limit |-> IF kind = "submit" THEN max_rows ELSE wire.row_limit]

\* The rows of the page a status body carries once the statement SUCCEEDED.
PageRows(r) == IF r.result # NoDict THEN r.result.data_array ELSE r.data_array

\* Lines 182-198: POST the statement, read the id and the state, set the deadline.
Submit ==
    /\ pc = "submit"
    /\ \E d \in Latencies :
        /\ now' = After(now, d)
        /\ \/ Raise(TransportError)
           \/ \E r \in StatusResponses({Null, "stmt-1"}) :
              IF r.statement_id = Null
              THEN Raise(MissingStatementId)
              ELSE /\ wire' = Exchange("submit", STATEMENTS_PATH, r,
                                       IF r.state = "SUCCEEDED" THEN Len(PageRows(r)) ELSE 0)
                   /\ response_data' = r
                   /\ statement_id' = r.statement_id
                   /\ state' = StateOf(r)
                   /\ deadline' = now' + POLL_TIMEOUT_SECONDS
                   /\ pc' = "poll"
                   /\ UNCHANGED <<max_rows, columns, all_rows, next_chunk, raised,
                                  result, client_result, tool, query, max_rows_arg,
                                  cache_key, refresh>>
    /\ UNCHANGED <<env_ok, _client, _metadata_cache, other_vars>>

\* Lines 199-202: one turn of the poll loop: sleep, fetch the status, read the state.
Poll ==
    /\ pc = "poll"
    /\ KeepPolling(state, now, deadline)
    /\ \E d \in Latencies :
        /\ now' = After(now, POLL_INTERVAL_SECONDS + d)
        /\ \/ Raise(TransportError)
           \/ \E r \in StatusResponses({statement_id}) :
              /\ wire' = Exchange("poll", STATEMENTS_PATH \o "/" \o statement_id, r,
                                  IF r.state = "SUCCEEDED" THEN Len(PageRows(r)) ELSE 0)
              /\ response_data' = r
              /\ state' = StateOf(r)
              /\ UNCHANGED <<pc, raised, result, max_rows, statement_id, deadline,
                             columns, all_rows, next_chunk, client_result, tool, query,
                             max_rows_arg, cache_key, refresh>>
    /\ UNCHANGED <<env_ok, _client, _metadata_cache, other_vars>>

\* Lines 204-210: the poll loop is over: fail unless SUCCEEDED, else take the
\* columns and the first page of the response read last.  response_data and
\* deadline are not read again, and the model drops them here.
PollExit ==
    /\ pc = "poll"
    /\ ~KeepPolling(state, now, deadline)
    /\ IF state # "SUCCEEDED"
       THEN Raise([type |-> "RuntimeError", message |-> _error_message(response_data)])
       ELSE /\ columns' = _extract_columns(response_data)
            /\ all_rows' = _extract_rows(response_data)[1]
            /\ next_chunk' = _extract_rows(response_data)[2]
            /\ pc' = "chunks"
            /\ response_data' = NoResponse
            /\ deadline' = 0
            /\ UNCHANGED <<raised, result, max_rows, statement_id, state, client_result,
                           wire, tool, query, max_rows_arg, cache_key, refresh>>
    /\ UNCHANGED <<now, env_ok, _client, _metadata_cache, other_vars>>

\* Lines 212-215: one turn of the chunk loop: fetch the link, append its rows.
Chunk ==
    /\ pc = "chunks"
    /\ MoreChunks(next_chunk, all_rows, max_rows)
    /\ \E d \in Latencies :
        /\ now' = After(now, d)
        /\ \/ Raise(TransportError)
           \/ \E r \in ChunkResponses(wire.rows_sent) :
              /\ wire' = Exchange("chunk", next_chunk, r,
                                  wire.rows_sent + Len(r.data_array))
              /\ all_rows' = all_rows \o _extract_rows(r)[1]
              /\ next_chunk' = _extract_rows(r)[2]
              /\ UNCHANGED <<pc, raised, result, max_rows, statement_id, state,
                             response_data, deadline, columns, client_result, tool,
                             query, max_rows_arg, cache_key, refresh>>
    /\ UNCHANGED <<env_ok, _client, _metadata_cache, other_vars>>

\* Lines 217-228, and the caller's use of the dict: the query tools return it
\* (line 325); _run_metadata_query stores its rows and wraps them (lines 253-257).
Finish ==
    /\ pc = "chunks"
    /\ ~MoreChunks(next_chunk, all_rows, max_rows)
    /\ client_result' = ClientReturn(statement_id, columns, all_rows, next_chunk, max_rows)
    /\ IF tool \in QueryTools
       THEN /\ result' = Returned(client_result')
            /\ UNCHANGED _metadata_cache
       ELSE /\ _metadata_cache' =
                  CacheAfterSet(_metadata_cache, cache_key, client_result'.rows, now)
            /\ result' = Returned([ok |-> TRUE, cached |-> FALSE,
                                   data |-> client_result'.rows])
    /\ pc' = "idle"
    /\ ClearLocals
    /\ ClearArguments
    /\ UNCHANGED <<now, env_ok, _client, wire, raised, other_vars>>

\* Time passes between calls.
Tick ==
    /\ pc = "idle"
    /\ now < MaxTime
    /\ now' = now + 1
    /\ UNCHANGED <<env_ok, _client, _metadata_cache, call_vars, client_vars,
                   other_vars>>

\* The parts of the program a specification leaves alone, as they start.
ClassifierAtRest == sql_text = << >> /\ verdict = "none"

ThreadsAtRest == threads = << >> /\ _cache_lock = 0 /\ _client_lock = 0

PlansAtRest == plans = << >>

HistoryAtRest ==
    conversation_history = << >> /\ MAX_HISTORY_MESSAGES = 0 /\ appended = << >>

Init ==
    /\ ClassifierAtRest
    /\ ThreadsAtRest
    /\ PlansAtRest
    /\ HistoryAtRest
    /\ now = 0
    /\ env_ok \in BOOLEAN
    /\ _client = "None"
    /\ _metadata_cache = << >>
    /\ tool = "none"
    /\ query = << >>
    /\ max_rows_arg = 0
    /\ cache_key = << >>
    /\ refresh = FALSE
    /\ pc = "idle"
    /\ max_rows = 0
    /\ statement_id = Null
    /\ state = Null
    /\ response_data = NoResponse
    /\ deadline = 0
    /\ columns = << >>
    /\ all_rows = << >>
    /\ next_chunk = Null
    /\ wire = NoExchange
    /\ client_result = NoResult
    /\ raised = NoException
    /\ result = NoOutcome

Next ==
    \/ ListCatalogs
    \/ ListSchemas
    \/ ListDatabases
    \/ ListTables
    \/ DescribeTable
    \/ ExecuteReadQuery
    \/ GetDatabricksData
    \/ Submit
    \/ Poll
    \/ PollExit
    \/ Chunk
    \/ Finish
    \/ Tick

Spec == Init /\ [][Next]_vars

\* ------------------------------------------------------------------------
\* The classifier as a state machine over bounded SQL texts
\* ------------------------------------------------------------------------
\* The elements the model's SQL texts are written with.
Alphabet == {"select", "DROP", "'", "\"", "-", "/", "*", "\n"}

\* Two adjacent words would be one longer word: texts keep words apart.
Texts ==
    {q \in UNION {[1..n -> Alphabet] : n \in 0..MaxLen} :
        \A i \in 1..(Len(q) - 1) : ~(IsWord(q[i]) /\ IsWord(q[i + 1]))}

InitClassifier ==
    /\ sql_text \in Texts
    /\ verdict = "none"
    /\ ThreadsAtRest
    /\ PlansAtRest
    /\ HistoryAtRest
    /\ now = 0
    /\ env_ok = TRUE
    /\ _client = "None"
    /\ _metadata_cache = << >>
    /\ tool = "none"
    /\ query = << >>
    /\ max_rows_arg = 0
    /\ cache_key = << >>
    /\ refresh = FALSE
    /\ pc = "idle"
    /\ max_rows = 0
    /\ statement_id = Null
    /\ state = Null
    /\ response_data = NoResponse
    /\ deadline = 0
    /\ columns = << >>
    /\ all_rows = << >>
    /\ next_chunk = Null
    /\ wire = NoExchange
    /\ client_result = NoResult
    /\ raised = NoException
    /\ result = NoOutcome

Classify ==
    /\ verdict = "none"
    /\ verdict' = IF is_read_only_query(sql_text) THEN "allowed" ELSE "blocked"
    /\ UNCHANGED <<sql_text, gateway_vars, thread_vars, plan_vars, history_vars>>

NextClassifier == Classify

SpecClassifier == InitClassifier /\ [][NextClassifier]_vars

\* ------------------------------------------------------------------------
\* The lexical structure the classifier's contract speaks of: a left-to-right
\* scan that gives every element its class ("code", "quote", "lit" or
\* "comment"), with the escape conventions of the classifier's own patterns.
\* The last entry is the mode in which the scan ends.
\* ------------------------------------------------------------------------
RECURSIVE Scan(_, _, _)
Scan(q, i, mode) ==
    IF i > Len(q) THEN <<mode>>
    ELSE LET two(x) == i + 1 <= Len(q) /\ q[i + 1] = x
         IN  CASE mode = "code" ->
                    IF q[i] = "-" /\ two("-")
                        THEN <<"comment", "comment">> \o Scan(q, i + 2, "line")
                    ELSE IF q[i] = "/" /\ two("*")
                        THEN <<"comment", "comment">> \o Scan(q, i + 2, "block")
                    ELSE IF q[i] = "'" THEN <<"quote">> \o Scan(q, i + 1, "sq")
                    ELSE IF q[i] = "\"" THEN <<"quote">> \o Scan(q, i + 1, "dq")
                    ELSE IF q[i] = BACKTICK THEN <<"quote">> \o Scan(q, i + 1, "bq")
                    ELSE <<"code">> \o Scan(q, i + 1, "code")
               [] mode = "line" ->
                    IF q[i] = "\n" THEN <<"code">> \o Scan(q, i + 1, "code")
                    ELSE <<"comment">> \o Scan(q, i + 1, "line")
               [] mode = "block" ->
                    IF q[i] = "*" /\ two("/")
                        THEN <<"comment", "comment">> \o Scan(q, i + 2, "code")
                    ELSE <<"comment">> \o Scan(q, i + 1, "block")
               [] mode = "sq" ->
                    IF q[i] = "'" /\ two("'") THEN <<"lit", "lit">> \o Scan(q, i + 2, "sq")
                    ELSE IF q[i] = "'" THEN <<"quote">> \o Scan(q, i + 1, "code")
                    ELSE <<"lit">> \o Scan(q, i + 1, "sq")
               [] mode = "dq" ->
                    IF q[i] = "\\" /\ two("\"") THEN <<"lit", "lit">> \o Scan(q, i + 2, "dq")
                    ELSE IF q[i] = "\"" THEN <<"quote">> \o Scan(q, i + 1, "code")
                    ELSE <<"lit">> \o Scan(q, i + 1, "dq")
               [] mode = "bq" ->
                    IF q[i] = BACKTICK /\ two(BACKTICK)
                        THEN <<"lit", "lit">> \o Scan(q, i + 2, "bq")
                    ELSE IF q[i] = BACKTICK THEN <<"quote">> \o Scan(q, i + 1, "code")
                    ELSE <<"lit">> \o Scan(q, i + 1, "bq")

\* Every literal and block comment of q is closed.
WellFormed(q) == Scan(q, 1, "code")[Len(q) + 1] \in {"code", "line"}

\* Element k of q is a whole word outside comments and literals.
LiveWord(q, k) ==
    /\ Scan(q, 1, "code")[k] = "code"
    /\ IsWord(q[k])
    /\ (k = 1 \/ ~IsWord(q[k - 1]))
    /\ (k = Len(q) \/ ~IsWord(q[k + 1]))

\* q holds a disallowed keyword outside comments and literals.
HasLiveDisallowed(q) ==
    \E k \in 1..Len(q) : LiveWord(q, k) /\ UpperElem(q[k]) \in DISALLOWED_OPERATIONS

\* The first element of q that is neither whitespace nor inside a comment is a
\* read-only start keyword.
StartsReadOnly(q) ==
    \E k \in 1..Len(q) :
        /\ LiveWord(q, k)
        /\ UpperElem(q[k]) \in READ_ONLY_START_KEYWORDS
        /\ \A j \in 1..(k - 1) :
              q[j] \in Whitespace \/ Scan(q, 1, "code")[j] = "comment"

\* C2: every well-formed SQL text that holds a disallowed keyword as a whole
\* word outside comments and literals (at its start or anywhere later) is
\* blocked by is_read_only_query.
C2_LiveDisallowedBlocked ==
    (verdict # "none" /\ WellFormed(sql_text) /\ HasLiveDisallowed(sql_text))
        => verdict = "blocked"

\* C3: every well-formed SQL text whose first live token is a read-only start
\* keyword and that holds no disallowed keyword outside comments and literals
\* is allowed by is_read_only_query, whatever its literals contain.
C3_ReadOnlyAllowed ==
    (/\ verdict # "none"
     /\ WellFormed(sql_text)
     /\ StartsReadOnly(sql_text)
     /\ ~HasLiveDisallowed(sql_text))
        => verdict = "allowed"

\* ------------------------------------------------------------------------
\* The gateway's contract.  wire is the warehouse's side of the call: the
\* request answered last, its body, and the rows sent so far.
\* ------------------------------------------------------------------------
\* The link carried by the page consumed last.
LastLink == _extract_rows(wire.response)[2]

\* This step returns the client's dict.
ClientReturns == pc = "chunks" /\ pc' = "idle" /\ client_result'.ok

\* This step issues an HTTP request of the given kind and gets its answer.
Fetches(kind) == wire' # wire /\ wire'.kind = kind

\* C1: a call of a query tool with max_rows <= 0 or a query the classifier
\* rejects returns, in that very step, the ok:false envelope with the fixed
\* message, constructs no client and issues no HTTP request; a query tool's
\* call is in flight only with arguments that passed validation.
C1_ValidationBeforeDispatch ==
    [][/\ \A t \in QueryTools, q \in Queries, m \in RowCaps :
            (ExecuteCall(t, q, m) /\ (m <= 0 \/ ~is_read_only_query(q)))
                => /\ result' =
                        Returned([ok |-> FALSE,
                                  error |-> IF m <= 0
                                            THEN "max_rows must be greater than 0."
                                            ELSE "Only read-only SQL is allowed. Use SELECT, WITH, SHOW, DESCRIBE, DESC, or EXPLAIN."])
                   /\ _client' = _client
                   /\ pc' = "idle"
                   /\ wire' = NoExchange
       /\ (pc' # "idle" /\ tool' \in QueryTools)
            => (max_rows_arg' > 0 /\ is_read_only_query(query'))
      ]_vars

\* A query tool has just rejected a call, with no client and no request made.
C1_Witness ==
    /\ pc = "idle"
    /\ result = Returned([ok |-> FALSE,
                          error |-> "Only read-only SQL is allowed. Use SELECT, WITH, SHOW, DESCRIBE, DESC, or EXPLAIN."])
    /\ _client = "None"
    /\ wire = NoExchange

\* C4: whenever the client returns its dict for a call with max_rows = N, the
\* dict holds at most N rows and row_count is their number.
C4_AtMostMaxRows ==
    [][ClientReturns
          => /\ Len(client_result'.rows) <= max_rows
             /\ client_result'.row_count = Len(client_result'.rows)
      ]_vars

\* The client returned as many rows as the cap allows, having received more.
C4_Witness ==
    /\ pc = "idle"
    /\ client_result.ok
    /\ client_result.row_count = MAX_ROWS_HARD_LIMIT
    /\ wire.rows_sent > MAX_ROWS_HARD_LIMIT

\* C5: whenever the client returns its dict for a call with max_rows = N,
\* truncated is true exactly when the page consumed last carried a link or the
\* warehouse had sent more than N rows; when it is false the dict holds every
\* row the warehouse sent.
C5_TruncatedIffMoreData ==
    [][ClientReturns
          => /\ client_result'.truncated <=> (LastLink # Null \/ wire.rows_sent > max_rows)
             /\ ~client_result'.truncated => client_result'.row_count = wire.rows_sent
      ]_vars

\* The client returned truncated rows with no link outstanding.
C5_Witness ==
    /\ pc = "idle"
    /\ client_result.ok
    /\ client_result.truncated
    /\ LastLink = Null
    /\ wire.rows_sent > client_result.row_count

\* C6: a chunk is fetched only from the link carried by the page consumed last
\* and only while fewer than max_rows rows are accumulated, its rows are
\* appended after the rows accumulated so far, and the client returns only
\* when the page consumed last carried no link or max_rows rows are accumulated.
C6_ChunksInLinkOrder ==
    [][/\ Fetches("chunk")
            => /\ LastLink # Null
               /\ wire'.url = LastLink
               /\ wire.rows_sent < max_rows
               /\ all_rows' = all_rows \o wire'.response.data_array
       /\ ClientReturns
            => (LastLink = Null \/ wire.rows_sent >= max_rows)
      ]_vars

\* Following has stopped at the cap, after a chunk, with a link outstanding.
C6_Witness ==
    /\ pc = "chunks"
    /\ wire.kind = "chunk"
    /\ wire.rows_sent >= max_rows
    /\ LastLink # Null
    /\ ~MoreChunks(next_chunk, all_rows, max_rows)

\* C7: a status poll is issued only after a PENDING or RUNNING answer; once an
\* answer that came before the deadline reports SUCCEEDED, the next step of the
\* call takes the columns and the first page of that answer and goes on to the
\* chunks, with no failure and no further poll.
C7_SucceededAfterPolls ==
    [][/\ Fetches("poll") => wire.response.state \in {"PENDING", "RUNNING"}
       /\ (pc = "poll" /\ wire.response.state = "SUCCEEDED")
            => /\ pc' = "chunks"
               /\ wire' = wire
               /\ columns' = _extract_columns(wire.response)
               /\ all_rows' = PageRows(wire.response)
               /\ next_chunk' = LastLink
       /\ (pc = "poll" /\ pc' = "chunks") => wire.response.state = "SUCCEEDED"
      ]_vars

\* A statement that was polled has succeeded with rows in its final answer.
C7_Witness ==
    /\ pc = "chunks"
    /\ wire.kind = "poll"
    /\ wire.response.state = "SUCCEEDED"
    /\ all_rows # << >>
    /\ all_rows = PageRows(wire.response)

\* The poll loop has run out of time: the statement is still PENDING or
\* RUNNING at or after the deadline.
TimedOut == pc = "poll" /\ state \in {"PENDING", "RUNNING"} /\ ~(now < deadline)

\* The call ends here in a failure, without another request.
Abandons ==
    /\ pc' = "idle"
    /\ now' = now
    /\ raised'.type = "RuntimeError"
    /\ client_result' = NoResult
    /\ result' = Boundary(tool, raised')

\* C8 as stated: a statement still PENDING or RUNNING past the deadline makes
\* the call fail, abandoning the job, no later than the deadline plus one poll
\* interval.
C8_FailsWithinOneInterval ==
    [][TimedOut => (Abandons /\ now <= deadline + POLL_INTERVAL_SECONDS)]_vars

\* C8, amended: a statement still PENDING or RUNNING past the deadline makes
\* the call fail, abandoning the job, earlier than the deadline plus one poll
\* interval plus the HTTP timeout of the status request that was in flight.
C8_FailsWithinIntervalAndRequest ==
    [][TimedOut
          => (Abandons /\ now < deadline + POLL_INTERVAL_SECONDS + HTTP_TIMEOUT_SECONDS)
      ]_vars

\* The call has failed on a statement that was still RUNNING.
C8_Witness ==
    /\ pc = "idle"
    /\ raised = [type |-> "RuntimeError", message |-> "RUNNING"]

\* The poll loop ends here in a state other than SUCCEEDED.
PollLoopFails == pc = "poll" /\ pc' = "idle" /\ raised'.type = "RuntimeError"

\* C9 as stated: a poll loop that ends in a state other than SUCCEEDED fails
\* with the error message of the last answer when it has one, and with the
\* generic text when it has none.
C9_MessageOrGeneric ==
    [][PollLoopFails
          => raised'.message = IF wire.response.message # Null
                               THEN wire.response.message
                               ELSE GENERIC_ERROR
      ]_vars

\* C9, amended: a poll loop that ends in a state other than SUCCEEDED fails
\* with the error message of the last answer when it has one, else with the
\* name of the state that answer reports, and with the generic text when the
\* answer has neither.
C9_MessageStateOrGeneric ==
    [][PollLoopFails
          => raised'.message = IF wire.response.message # Null
                               THEN wire.response.message
                               ELSE IF wire.response.state # Null
                               THEN wire.response.state
                               ELSE GENERIC_ERROR
      ]_vars

\* The call has failed on a FAILED statement that gave no error message.
C9_Witness ==
    /\ pc = "idle"
    /\ raised = [type |-> "RuntimeError", message |-> "FAILED"]

\* C10: no failure leaves a public operation as an exception: whenever the
\* client call raised, the operation returned an ok:false envelope.
C10_FailuresBecomeEnvelopes ==
    (pc = "idle" /\ raised # NoException)
        => (result.status = "returned" /\ ~result.envelope.ok)

\* C16: while a call of a query tool with max_rows > 0 is in flight, the
\* row_limit of its submission is at most max_rows and at most the hard
\* ceiling, and the dict it returns holds no more rows than either.
C16_RowCapClamped ==
    [][/\ (pc' # "idle" /\ tool' \in QueryTools /\ wire'.kind # "none")
            => /\ max_rows_arg' > 0
               /\ wire'.row_limit <= max_rows_arg'
               /\ wire'.row_limit <= MAX_ROWS_HARD_LIMIT
       /\ (ClientReturns /\ tool \in QueryTools)
            => /\ result' = Returned(client_result')
               /\ client_result'.row_count <= max_rows_arg
               /\ client_result'.row_count <= MAX_ROWS_HARD_LIMIT
      ]_vars

\* A query tool asked for more than the ceiling has submitted its statement
\* with the ceiling as row_limit.
C16_Witness ==
    /\ tool \in QueryTools
    /\ max_rows_arg > MAX_ROWS_HARD_LIMIT
    /\ wire.kind = "submit"
    /\ wire.row_limit = MAX_ROWS_HARD_LIMIT

\* ------------------------------------------------------------------------
\* Termination: the gateway with every started call scheduled until it ends
\* (each HTTP call returns).
\* ------------------------------------------------------------------------
SpecFair == Spec /\ WF_vars(Submit \/ Poll \/ PollExit \/ Chunk \/ Finish)

\* C17: every call that has started eventually returns or fails.
C17_CallsEnd == (pc # "idle") ~> (pc = "idle")

\* ------------------------------------------------------------------------
\* Concurrent callers of the metadata tools (src/server.py 104-119, 231-257).
\* Every thread runs _run_metadata_query statement by statement; the two
\* locks are taken and released where the with-blocks take and release them.
\* The client's execute_read_query is one step of a thread: it returns the
\* rows of a result or raises, as the sequential gateway above shows.
\* ------------------------------------------------------------------------
MaxThreads == 2

\* The clock of the concurrent callers stops here: room for an entry to be
\* stored, to live METADATA_CACHE_TTL_SECONDS and to be found expired.
MaxClock == 3

Threads == 1..MaxThreads

IdleThread ==
    [pc |-> "idle", sql |-> << >>, key |-> << >>, refresh |-> FALSE, now |-> 0,
     client |-> "None", payload |-> << >>, result |-> NoOutcome]

\* The calls the threads make, as <<sql, cache key>>: they contend for one key.
ThreadPlans == {list_catalogs_plan}

\* The "rows" the client may return to _run_metadata_query (max_rows is
\* MAX_ROWS_DEFAULT).
Payloads ==
    {MappedRows(<<"a">>, p) : p \in {q \in Pages(0) : Len(q) <= MAX_ROWS_DEFAULT}}

\* The exceptions the client call may raise.
ClientFailures == {TransportError, MissingStatementId}

\* What the threads never touch.
thread_frame == <<call_vars, client_vars, classifier_vars, plan_vars, history_vars>>

\* Thread t moves on with the given locals changed.
Step(t, locals) == threads' = [threads EXCEPT ![t] = locals]

\* Thread t leaves _run_metadata_query with the given outcome; its frame is gone.
Leave(t, outcome) == Step(t, [IdleThread EXCEPT !.result = outcome])

\* A metadata tool is called on thread t: line 247.
Enter(t) ==
    /\ threads[t].pc = "idle"
    /\ \E plan \in ThreadPlans, rf \in BOOLEAN :
        Step(t, [IdleThread EXCEPT !.pc = IF rf THEN "get_client" ELSE "cache_get",
                                   !.sql = plan[1], !.key = plan[2], !.refresh = rf])
    /\ UNCHANGED <<process_vars, _cache_lock, _client_lock, thread_frame>>

\* _cache_get, line 105: now = time.time(), before the lock is taken.
CacheGetNow(t) ==
    /\ threads[t].pc = "cache_get"
    /\ Step(t, [threads[t] EXCEPT !.pc = "cache_get_lock", !.now = now])
    /\ UNCHANGED <<process_vars, _cache_lock, _client_lock, thread_frame>>

\* _cache_get, line 106: with _cache_lock.
CacheGetLock(t) ==
    /\ threads[t].pc = "cache_get_lock"
    /\ _cache_lock = 0
    /\ _cache_lock' = t
    /\ Step(t, [threads[t] EXCEPT !.pc = "cache_get_read"])
    /\ UNCHANGED <<process_vars, _client_lock, thread_frame>>

\* _cache_get, lines 107-114, and lines 248-250 of its caller: the entry is
\* judged against the thread's own now; a live payload is returned as cached.
CacheGetRead(t) ==
    /\ threads[t].pc = "cache_get_read"
    /\ _cache_lock = t
    /\ _cache_lock' = 0
    /\ _metadata_cache' = CacheAfterGet(_metadata_cache, threads[t].key, threads[t].now)
    /\ IF CacheHit(_metadata_cache, threads[t].key, threads[t].now)
       THEN Leave(t, Returned([ok |-> TRUE, cached |-> TRUE,
                               data |-> _metadata_cache[threads[t].key][2]]))
       ELSE Step(t, [threads[t] EXCEPT !.pc = "get_client"])
    /\ UNCHANGED <<now, env_ok, _client, _client_lock, thread_frame>>

\* _get_client, lines 233-234: the lock-free read.
GetClientFast(t) ==
    /\ threads[t].pc = "get_client"
    /\ IF _client # "None"
       THEN Step(t, [threads[t] EXCEPT !.pc = "client_call", !.client = _client])
       ELSE Step(t, [threads[t] EXCEPT !.pc = "client_lock"])
    /\ UNCHANGED <<process_vars, _cache_lock, _client_lock, thread_frame>>

\* _get_client, line 236: with _client_lock.
ClientLock(t) ==
    /\ threads[t].pc = "client_lock"
    /\ _client_lock = 0
    /\ _client_lock' = t
    /\ Step(t, [threads[t] EXCEPT !.pc = "client_build"])
    /\ UNCHANGED <<process_vars, _cache_lock, thread_frame>>

\* Variant: no second look under the lock.
ClientMissingUnchecked(c) == TRUE

\* _get_client, line 237: if _client is None, under the lock.
ClientMissing(c) == c = "None"

\* A newly constructed DatabricksSQLClient: the first is "client"; one that
\* replaces another is a different object.
NewClient(c) == IF c = "None" THEN "client" ELSE c \o "'"

\* _get_client, lines 237-243: construct the client if there is none, release
\* the lock, return _client.  _required_env raises when a setting is missing.
ClientBuild(t) ==
    /\ threads[t].pc = "client_build"
    /\ _client_lock = t
    /\ _client_lock' = 0
    /\ IF ClientMissing(_client) /\ ~env_ok
       THEN /\ Leave(t, Propagated(MissingEnvironment))
            /\ UNCHANGED _client
       ELSE /\ _client' = IF ClientMissing(_client) THEN NewClient(_client) ELSE _client
            /\ Step(t, [threads[t] EXCEPT !.pc = "client_call", !.client = _client'])
    /\ UNCHANGED <<now, env_ok, _metadata_cache, _cache_lock, thread_frame>>

\* Variant: a failed call is remembered as an empty payload.
CacheAfterFailureStoresEmpty(cache, key, t) == CacheAfterSet(cache, key, << >>, t)

\* Lines 251-254 when line 251 raises: the exception leaves
\* _run_metadata_query, line 254 is not reached, the cache is as it was.
CacheAfterFailure(cache, key, t) == cache

\* Line 251: the client's execute_read_query returns its rows, or raises.
ClientCall(t) ==
    /\ threads[t].pc = "client_call"
    /\ \/ /\ \E exc \in ClientFailures : Leave(t, Propagated(exc))
          /\ _metadata_cache' = CacheAfterFailure(_metadata_cache, threads[t].key, now)
       \/ /\ \E rows \in Payloads :
                Step(t, [threads[t] EXCEPT !.pc = "cache_set_lock", !.payload = rows])
          /\ UNCHANGED _metadata_cache
    /\ UNCHANGED <<now, env_ok, _client, _cache_lock, _client_lock, thread_frame>>

\* _cache_set, line 118: with _cache_lock.
CacheSetLock(t) ==
    /\ threads[t].pc = "cache_set_lock"
    /\ _cache_lock = 0
    /\ _cache_lock' = t
    /\ Step(t, [threads[t] EXCEPT !.pc = "cache_set_write"])
    /\ UNCHANGED <<process_vars, _client_lock, thread_frame>>

\* _cache_set, line 119, and line 257 of its caller: the entry is stored whole,
\* with the time read under the lock.
CacheSetWrite(t) ==
    /\ threads[t].pc = "cache_set_write"
    /\ _cache_lock = t
    /\ _cache_lock' = 0
    /\ _metadata_cache' =
          CacheAfterSet(_metadata_cache, threads[t].key, threads[t].payload, now)
    /\ Leave(t, Returned([ok |-> TRUE, cached |-> FALSE, data |-> threads[t].payload]))
    /\ UNCHANGED <<now, env_ok, _client, _client_lock, thread_frame>>

\* time.time() moves on between any two statements of the threads.
Pass ==
    /\ now < MaxClock
    /\ now' = now + 1
    /\ UNCHANGED <<env_ok, _client, _metadata_cache, thread_vars, thread_frame>>

\* execute_read_query's locals while no sequential call runs.
ClearedLocals ==
    /\ max_rows = 0
    /\ statement_id = Null
    /\ state = Null
    /\ response_data = NoResponse
    /\ deadline = 0
    /\ columns = << >>
    /\ all_rows = << >>
    /\ next_chunk = Null

InitThreads ==
    /\ ClassifierAtRest
    /\ PlansAtRest
    /\ HistoryAtRest
    /\ now = 0
    /\ env_ok \in BOOLEAN
    /\ _client = "None"
    /\ _metadata_cache = << >>
    /\ tool = "none"
    /\ query = << >>
    /\ max_rows_arg = 0
    /\ cache_key = << >>
    /\ refresh = FALSE
    /\ pc = "idle"
    /\ ClearedLocals
    /\ wire = NoExchange
    /\ client_result = NoResult
    /\ raised = NoException
    /\ result = NoOutcome
    /\ threads = [t \in Threads |-> IdleThread]
    /\ _cache_lock = 0
    /\ _client_lock = 0

NextThreads ==
    \/ \E t \in Threads : Enter(t)
    \/ \E t \in Threads : CacheGetNow(t)
    \/ \E t \in Threads : CacheGetLock(t)
    \/ \E t \in Threads : CacheGetRead(t)
    \/ \E t \in Threads : GetClientFast(t)
    \/ \E t \in Threads : ClientLock(t)
    \/ \E t \in Threads : ClientBuild(t)
    \/ \E t \in Threads : ClientCall(t)
    \/ \E t \in Threads : CacheSetLock(t)
    \/ \E t \in Threads : CacheSetWrite(t)
    \/ Pass

SpecThreads == InitThreads /\ [][NextThreads]_vars

\* ------------------------------------------------------------------------
\* The contract of the cache and of the client singleton
\* ------------------------------------------------------------------------
\* Thread t takes a step.
Moves(t) == threads'[t] # threads[t]

\* Thread t is past the cache lookup: it computes.
Computing(t) ==
    threads[t].pc \in {"get_client", "client_lock", "client_build", "client_call",
                       "cache_set_lock", "cache_set_write"}

\* Thread t returns an envelope in this step.
ReturnsEnvelope(t) ==
    Moves(t) /\ threads'[t].pc = "idle" /\ threads'[t].result.status = "returned"

\* C11: a refresh=false lookup that finds an entry for its key no later than
\* the entry's expiry returns cached:true with the stored payload, empty or
\* not, without going to the client and without touching the cache; one that
\* finds the entry after its expiry goes on to the client; and a call that
\* went to the client returns cached:false.
C11_HitWithinTtlElseRecompute ==
    [][\A t \in Threads :
          LET th == threads[t]
          IN  /\ (th.pc = "cache_get_read" /\ Moves(t) /\ th.key \in DOMAIN _metadata_cache)
                    => IF th.now <= _metadata_cache[th.key][1]
                       THEN /\ threads'[t].pc = "idle"
                            /\ threads'[t].result =
                                  Returned([ok |-> TRUE, cached |-> TRUE,
                                            data |-> _metadata_cache[th.key][2]])
                            /\ _metadata_cache' = _metadata_cache
                       ELSE threads'[t].pc = "get_client"
              /\ (Computing(t) /\ ReturnsEnvelope(t))
                    => threads'[t].result.envelope.cached = FALSE
      ]_vars

\* A lookup has returned a stored empty row list as a cache hit.
C11_Witness ==
    \E t \in Threads :
        threads[t].result = Returned([ok |-> TRUE, cached |-> TRUE, data |-> << >>])

\* C12: whenever _cache_get hands a payload back, in every interleaving of
\* lookups, writes and the passage of time, the expiry of the entry is not
\* earlier than the time at which the payload is handed back.
C12_NeverReturnedPastExpiry ==
    [][\A t \in Threads :
          (/\ threads[t].pc = "cache_get_read"
           /\ Moves(t)
           /\ threads'[t].result.status = "returned")
              => _metadata_cache[threads[t].key][1] >= now
      ]_vars

\* C13: a refresh=true call never looks the key up; it returns an envelope
\* only after the client call, and then the envelope is cached:false with the
\* payload the client returned, and the entry of the key is that payload with
\* the expiry now + TTL, whatever entry was there; no other entry changes.
C13_RefreshRecomputesAndOverwrites ==
    [][\A t \in Threads :
          LET th == threads[t]
          IN  /\ threads'[t].refresh
                    => threads'[t].pc \notin {"cache_get", "cache_get_lock", "cache_get_read"}
              /\ (th.refresh /\ ReturnsEnvelope(t))
                    => /\ th.pc = "cache_set_write"
                       /\ threads'[t].result =
                             Returned([ok |-> TRUE, cached |-> FALSE, data |-> th.payload])
                       /\ th.key \in DOMAIN _metadata_cache'
                       /\ _metadata_cache'[th.key] =
                             <<now + METADATA_CACHE_TTL_SECONDS, th.payload>>
                       /\ \A k \in (DOMAIN _metadata_cache) \ {th.key} :
                             /\ k \in DOMAIN _metadata_cache'
                             /\ _metadata_cache'[k] = _metadata_cache[k]
      ]_vars

\* A refresh=true call has been to the client although a live entry with
\* another payload is stored, and is about to overwrite it.
C13_Witness ==
    \E t \in Threads :
        /\ threads[t].refresh
        /\ threads[t].pc = "cache_set_write"
        /\ threads[t].key \in DOMAIN _metadata_cache
        /\ _metadata_cache[threads[t].key][1] >= now
        /\ _metadata_cache[threads[t].key][2] # threads[t].payload

\* Thread t is inside a with _cache_lock block.
InCacheLock(t) == threads[t].pc \in {"cache_get_read", "cache_set_write"}

\* C14: the blocks under _cache_lock exclude one another; the cache changes
\* only by a whole write (the key's entry becomes the writer's own payload
\* with the expiry now + TTL read in that same step) or by the eviction of the
\* entry a lookup found expired; and every envelope a caller gets carries the
\* payload of its own client call or the payload stored in the key's entry.
C14_WholeEntriesLastWriterWins ==
    [][/\ \A t \in Threads : InCacheLock(t) => _cache_lock = t
       /\ _metadata_cache' # _metadata_cache
            => \E t \in Threads :
                /\ Moves(t)
                /\ _cache_lock = t
                /\ \/ /\ threads[t].pc = "cache_set_write"
                      /\ DOMAIN _metadata_cache' = DOMAIN _metadata_cache \cup {threads[t].key}
                      /\ _metadata_cache'[threads[t].key] =
                            <<now + METADATA_CACHE_TTL_SECONDS, threads[t].payload>>
                   \/ /\ threads[t].pc = "cache_get_read"
                      /\ _metadata_cache[threads[t].key][1] < threads[t].now
                      /\ DOMAIN _metadata_cache' = DOMAIN _metadata_cache \ {threads[t].key}
                /\ \A k \in (DOMAIN _metadata_cache') \ {threads[t].key} :
                      _metadata_cache'[k] = _metadata_cache[k]
       /\ \A t \in Threads :
            ReturnsEnvelope(t)
                => threads'[t].result.envelope.data =
                      IF threads'[t].result.envelope.cached
                      THEN _metadata_cache[threads[t].key][2]
                      ELSE threads[t].payload
      ]_vars

\* Two callers have each computed and stored a payload for the key, and the
\* entry holds the payload of one of them with an expiry of its own.
C14_Witness ==
    \E t1, t2 \in Threads :
        /\ t1 # t2
        /\ threads[t1].result.status = "returned"
        /\ threads[t2].result.status = "returned"
        /\ ~threads[t1].result.envelope.cached
        /\ ~threads[t2].result.envelope.cached
        /\ threads[t1].result.envelope.data # threads[t2].result.envelope.data
        /\ list_catalogs_plan[2] \in DOMAIN _metadata_cache
        /\ _metadata_cache[list_catalogs_plan[2]][2] = threads[t2].result.envelope.data
        /\ _metadata_cache[list_catalogs_plan[2]][1] > METADATA_CACHE_TTL_SECONDS

\* C15: _client changes only from None, by a thread that holds _client_lock
\* in the construction step, so one DatabricksSQLClient at most is ever
\* constructed and it is never replaced; every thread that got a client from
\* _get_client holds that one instance.
C15_OneClientPerProcess ==
    [][/\ _client' # _client
            => /\ _client = "None"
               /\ \E t \in Threads :
                     /\ threads[t].pc = "client_build"
                     /\ _client_lock = t
                     /\ Moves(t)
       /\ \A t \in Threads : threads'[t].client \in {"None", _client'}
       /\ \A t1, t2 \in Threads :
             (threads'[t1].pc = "client_call" /\ threads'[t2].pc = "client_call")
                => /\ threads'[t1].client = threads'[t2].client
                   /\ threads'[t1].client # "None"
      ]_vars

\* Two first callers both found no client on the lock-free read; one has
\* constructed it, the other holds the lock and finds it there.
C15_Witness ==
    \E t1, t2 \in Threads :
        /\ threads[t1].pc = "client_call"
        /\ threads[t1].client = _client
        /\ threads[t2].pc = "client_build"
        /\ _client_lock = t2
        /\ _client # "None"

\* C18: a step in which a metadata call fails leaves the cache as it was; an
\* entry is created or changed only by the write of a thread whose client
\* call succeeded, with the payload that call returned; and the write is
\* reached only from a successful client call.
C18_CacheChangedOnlyAfterSuccess ==
    [][/\ \A t \in Threads :
             (Moves(t) /\ threads'[t].result.status = "raised")
                => _metadata_cache' = _metadata_cache
       /\ \A k \in DOMAIN _metadata_cache' :
             (k \notin DOMAIN _metadata_cache \/ _metadata_cache'[k] # _metadata_cache[k])
                => \E t \in Threads :
                      /\ threads[t].pc = "cache_set_write"
                      /\ threads[t].key = k
                      /\ ReturnsEnvelope(t)
                      /\ _metadata_cache'[k][2] = threads[t].payload
       /\ \A t \in Threads :
             (Moves(t) /\ threads'[t].pc = "cache_set_lock")
                => /\ threads[t].pc = "client_call"
                   /\ threads'[t].payload \in Payloads
      ]_vars

\* A client call has failed and an entry stored before it is still live.
C18_Witness ==
    \E t \in Threads :
        /\ threads[t].pc = "idle"
        /\ threads[t].result.status = "raised"
        /\ threads[t].result.exception \in ClientFailures
        /\ \E k \in DOMAIN _metadata_cache :
              /\ ~(_metadata_cache[k][1] < now)
              /\ Len(_metadata_cache[k][2]) > 0

\* ------------------------------------------------------------------------
\* The statements and cache keys of the metadata tools (src/server.py
\* 260-307): which <<sql, key>> each call hands to _run_metadata_query.
\* Strings are sequences of their lexical elements; an f-string is the
\* concatenation of its parts.
\* ------------------------------------------------------------------------
\* How many calls are compared with one another.
MaxCalls == 2

\* Identifiers a caller may pass: plain names, a catalog named "default",
\* and names that contain "." or ":".
Names ==
    {<<"default">>, <<"a">>, <<"a", ".", "a">>, <<"schema", ":", "a">>}

\* An Optional[str] argument: a name, or None (<< >>, falsy like "").
OptionalNames == Names \cup {<< >>}

\* One call of a metadata tool with what it generated.
PlannedCall(t, args, plan) ==
    [tool |-> t, args |-> args, sql |-> plan[1], key |-> plan[2]]

CanPlan == Len(plans) < MaxCalls

\* The process with no call made: what the two specifications below start from.
GatewayAtRest ==
    /\ now = 0
    /\ env_ok = TRUE
    /\ _client = "None"
    /\ _metadata_cache = << >>
    /\ tool = "none"
    /\ query = << >>
    /\ max_rows_arg = 0
    /\ cache_key = << >>
    /\ refresh = FALSE
    /\ pc = "idle"
    /\ ClearedLocals
    /\ wire = NoExchange
    /\ client_result = NoResult
    /\ raised = NoException
    /\ result = NoOutcome

\* What computing a statement and a key leaves alone.
plan_frame == <<gateway_vars, classifier_vars, thread_vars, history_vars>>

\* list_catalogs, line 263.
PlanListCatalogs ==
    /\ CanPlan
    /\ plans' = Append(plans, PlannedCall("list_catalogs", << >>, list_catalogs_plan))
    /\ UNCHANGED plan_frame

\* list_schemas, lines 269-274, and its alias list_databases, line 281.
PlanListSchemas ==
    /\ CanPlan
    /\ \E t \in {"list_schemas", "list_databases"}, catalog \in OptionalNames :
          plans' = Append(plans, PlannedCall(t, <<catalog>>, list_schemas_plan(catalog)))
    /\ UNCHANGED plan_frame

\* list_tables, lines 287-295.
PlanListTables ==
    /\ CanPlan
    /\ \E catalog \in OptionalNames, schema \in OptionalNames :
          plans' = Append(plans, PlannedCall("list_tables", <<catalog, schema>>,
                                             list_tables_plan(catalog, schema)))
    /\ UNCHANGED plan_frame

\* describe_table, lines 302-306.
PlanDescribeTable ==
    /\ CanPlan
    /\ \E catalog \in Names, schema \in Names, table \in Names :
          plans' = Append(plans, PlannedCall("describe_table", <<catalog, schema, table>>,
                                             describe_table_plan(catalog, schema, table)))
    /\ UNCHANGED plan_frame

InitPlans ==
    /\ GatewayAtRest
    /\ ClassifierAtRest
    /\ ThreadsAtRest
    /\ HistoryAtRest
    /\ plans = << >>

NextPlans ==
    \/ PlanListCatalogs
    \/ PlanListSchemas
    \/ PlanListTables
    \/ PlanDescribeTable

SpecPlans == InitPlans /\ [][NextPlans]_vars

\* C19: two metadata tool calls that hand the same cache key to
\* _run_metadata_query hand it the same SQL statement.
C19_SameKeySameStatement ==
    \A i, j \in DOMAIN plans :
        plans[i].key = plans[j].key => plans[i].sql = plans[j].sql

\* ------------------------------------------------------------------------
\* The chat client's conversation history (src/client.py 15-25)
\* ------------------------------------------------------------------------
\* The largest MAX_HISTORY_MESSAGES the environment configures here.
MaxHistory == 2

\* How many messages are appended in all.
MaxAppends == 3

Roles == {"user", "assistant"}

Contents == {"q", "a"}

\* Python's del h[:stop]: a negative stop counts from the end, a stop beyond
\* either end is clamped, and the elements before it are removed.
DelUpTo(h, stop) ==
    LET n == Len(h)
        upto == IF stop < 0 THEN Max(n + stop, 0) ELSE Min(stop, n)
    IN  SubSeq(h, upto + 1, n)

\* What append_history leaves alone.
history_frame == <<gateway_vars, classifier_vars, thread_vars, plan_vars>>

\* append_history(role, content), lines 22-25.
append_history(role, content) ==
    /\ Len(appended) < MaxAppends
    /\ LET message == [role |-> role, content |-> content]
           grown == Append(conversation_history, message)
       IN  /\ conversation_history' =
                 IF Len(grown) > MAX_HISTORY_MESSAGES
                 THEN DelUpTo(grown, 0 - MAX_HISTORY_MESSAGES)
                 ELSE grown
           /\ appended' = Append(appended, message)
    /\ UNCHANGED <<MAX_HISTORY_MESSAGES, history_frame>>

\* Line 15 reads the cap from the environment; line 19 starts with no message.
InitHistory ==
    /\ GatewayAtRest
    /\ ClassifierAtRest
    /\ ThreadsAtRest
    /\ PlansAtRest
    /\ MAX_HISTORY_MESSAGES \in 0..MaxHistory
    /\ conversation_history = << >>
    /\ appended = << >>

NextHistory == \E role \in Roles, content \in Contents : append_history(role, content)

SpecHistory == InitHistory /\ [][NextHistory]_vars

\* C20: conversation_history never holds more than MAX_HISTORY_MESSAGES
\* entries, and it holds the most recently appended messages in the order
\* they were appended.
C20_HistoryIsLastMessages ==
    LET n == Len(appended)
        kept == Min(MAX_HISTORY_MESSAGES, n)
    IN  /\ Len(conversation_history) <= MAX_HISTORY_MESSAGES
        /\ conversation_history = SubSeq(appended, n - kept + 1, n)

====
